---------------------------- MODULE Spec2Model ----------------------------
(***************************************************************************)
(* Planning-poker session engine (pokerRouter) over its relational store.  *)
(*                                                                         *)
(* The store is the five tables of the schema, each a set of rows.  Only   *)
(* the columns an operation reads or writes are kept: the display name of  *)
(* a session, the title and description of a story, the createdAt stamps   *)
(* and the serial ids of votes and bets are never read by a handler and    *)
(* are left out.  A participant's name column always equals its userId     *)
(* column (both are set from the same input), so one field stands for      *)
(* both.                                                                   *)
(*                                                                         *)
(* Spec      runs every handler as one step (complete, non-overlapping     *)
(*           calls).                                                       *)
(* SpecConc  runs the handlers of several clients one store statement at   *)
(*           a time (every await of a handler is one step); its clients    *)
(*           make MaxCalls calls, all for the first session.               *)
(* SpecFair  is SpecConc with every statement of a call in flight          *)
(*           eventually answered by the store.                             *)
(* SpecValid is SpecConc with clearVotesAndNextStory called only with the  *)
(*           id of a story of the session, or with none.                   *)
(* SpecPoll  runs the handlers as Spec does, for the first session, with   *)
(*           every client's page polling getSessionDetails on its timer.   *)
(* SpecCross runs the statements of the writing handlers as SpecConc does,  *)
(*           with the calls addressed to either session.                   *)
(* SpecPage  is SpecPoll without fairness in which votes are cast through  *)
(*           the page's vote buttons, enabled from the page's last view.   *)
(***************************************************************************)
EXTENDS Integers, FiniteSets, Sequences, TLC

\* ------------------------------------------------------------------ bounds
MaxStories      == 2   \* rows the stories table may hold
MaxParticipants == 2   \* rows the participants table may hold
MaxVotes        == 2   \* rows the votes table may hold
MaxBets         == 2   \* rows the bets table may hold
MaxRows         == 6   \* rows the five tables may hold together
MaxCalls        == 4   \* SpecConc: calls the clients make in one run
MaxPollRows     == 3   \* SpecPoll: rows in the store at which the calls stop
MaxPageRows     == 4   \* SpecPage: rows in the store at which the calls stop

\* ------------------------------------------------------------------ inputs
\* SQL NULL / an omitted optional input; distinct from every id and number
\* the model passes.
NULL == -1

\* Session tokens, in the order nanoid(8) first returns them.
SessionIds == <<"s1", "s2">>
SessionInputs == {SessionIds[i] : i \in DOMAIN SessionIds}

\* Display names callers type in.
UserNames == {"alice", "bob"}

POKER_VALUES ==
    {"0", "1/2", "1", "2", "3", "5", "8", "13", "20", "40", "100", "?", "coffee"}

\* Vote values callers send: two legal ones and one that is not in POKER_VALUES.
VoteInputs == {"3", "5", "7"}

\* Bet values callers send (any string passes z.string()).
BetInputs == {"3", "7"}

\* Participant ids callers send: every id the table can come to hold (an id
\* is unknown to the store until its row is inserted).
ParticipantInputs == 1..MaxParticipants

\* Story ids callers send: 0 (falsy, never a serial id) and every id the table
\* can come to hold.
StoryInputs == 0..MaxStories

\* ------------------------------------------------------------------ errors
ErrSessionNotFound   == "Session not found"
ErrNoStoryToVote     == "No active story to vote on."
ErrNoStoryToReveal   == "No active story to reveal votes for."
ErrParticipant       == "Participant not found in this session"
ErrInvalidVote       == "Invalid vote value"
ErrStoryNotFound     == "Story not found for this bet."
ErrInactiveStory     == "Bets can only be placed on active stories."
ErrBetParticipant    == "Participant not found in this session."
ErrStore             == "store constraint violation"

VARIABLES
    sessions,      \* set of [id, currentStoryId, votesRevealed]
    participants,  \* set of [id, sessionId, userId, isHost]
    stories,       \* set of [id, sessionId, isActive]
    votes,         \* set of [storyId, participantId, voteValue]
    bets,          \* set of [storyId, participantId, betValue]
    serial,        \* next value of the serial id of participants and stories
    last,          \* the most recently completed call: [op, arg, ok, err, ret]
    before,        \* the tables as they were when that call started
    calls,         \* SpecConc: per client, the call in flight [pc, arg, loc, res]
    started        \* SpecConc: calls started so far

store == <<sessions, participants, stories, votes, bets, serial>>
conc  == <<calls, started>>
vars  == <<sessions, participants, stories, votes, bets, serial,
           last, before, calls, started>>

Clients == {"c1", "c2"}

\* ------------------------------------------------------- store statements
\* Each operator is one statement of a handler, as a function of the tables.

\* The session lookup without its WHERE clause.
FindSession_Any(se, sid) == se

\* findFirst results are sets: empty when no row matches, else the one row.
FindSession(se, sid) == {s \in se : s.id = sid}

Row(found) == CHOOSE r \in found : TRUE

\* getCurrentStory without the isActive condition of its WHERE clause.
getCurrentStory_AnyStory(st, sid) ==
    LET any == {s \in st : s.sessionId = sid}
    IN  IF any = {} THEN {NULL} ELSE {s.id : s \in any}

\* getCurrentStory: SELECT ... WHERE sessionId AND isActive LIMIT 1, without
\* ORDER BY: any active story of the session may be the row returned.
getCurrentStory(st, sid) ==
    LET act == {s \in st : s.sessionId = sid /\ s.isActive}
    IN  IF act = {} THEN {NULL} ELSE {s.id : s \in act}

\* nanoid(8): a token no session has yet (tokens are interchangeable, so the
\* first unused one stands for all of them) or, on a collision, a token
\* that is already a session's id.
nanoid(se) ==
    LET used == {s.id : s \in se}
        free == {i \in DOMAIN SessionIds : SessionIds[i] \notin used}
    IN  used \cup {SessionIds[i] : i \in {j \in free : \A k \in free : j <= k}}

InsertSession(se, sid) ==
    se \cup {[id |-> sid, currentStoryId |-> NULL, votesRevealed |-> FALSE]}

\* The participant insert leaving isHost to its column default (false).
InsertParticipant_Guest(pa, id, sid, name, host) ==
    pa \cup {[id |-> id, sessionId |-> sid, userId |-> name, isHost |-> FALSE]}

\* An insert that makes every participant a host.
InsertParticipant_Host(pa, id, sid, name, host) ==
    pa \cup {[id |-> id, sessionId |-> sid, userId |-> name, isHost |-> TRUE]}

InsertParticipant(pa, id, sid, name, host) ==
    pa \cup {[id |-> id, sessionId |-> sid, userId |-> name, isHost |-> host]}

\* unique_user_in_session_uq
UserInSession(pa, sid, name) ==
    {p \in pa : p.sessionId = sid /\ p.userId = name}

\* joinSession without its lookup of the existing participant.
FindParticipantByName_Never(pa, sid, name) == {}

FindParticipantByName(pa, sid, name) ==
    {p \in pa : p.sessionId = sid /\ p.userId = name}

\* The participant lookup without its sessionId condition.
FindParticipantInSession_AnySession(pa, pid, sid) ==
    {p \in pa : p.id = pid}

FindParticipantInSession(pa, pid, sid) ==
    {p \in pa : p.id = pid /\ p.sessionId = sid}

\* castVote's input schema with a plain z.string() for voteValue.
ValidVoteValue_Any(val) == TRUE

\* z.string().refine(val => POKER_VALUES.includes(val))
ValidVoteValue(val) == val \in POKER_VALUES

FindStory(st, id) == {s \in st : s.id = id}

\* addStory without its deactivation of the session's stories.
AddStoryDeactivate_Skip(st, sid) == st

AddStoryDeactivate(st, sid) ==
    {IF s.sessionId = sid THEN [s EXCEPT !.isActive = FALSE] ELSE s : s \in st}

InsertStory(st, id, sid) ==
    st \cup {[id |-> id, sessionId |-> sid, isActive |-> TRUE]}

\* addStory's session update without the reset of votesRevealed.
SetCurrentStory_KeepRevealed(se, sid, storyId) ==
    {IF s.id = sid THEN [s EXCEPT !.currentStoryId = storyId] ELSE s : s \in se}

SetCurrentStory(se, sid, storyId) ==
    {IF s.id = sid
        THEN [s EXCEPT !.currentStoryId = storyId, !.votesRevealed = FALSE]
        ELSE s : s \in se}

\* unique_vote_uq
HasVote(vo, storyId, pid) ==
    \E v \in vo : v.storyId = storyId /\ v.participantId = pid

\* unique_bet_uq
HasBet(be, storyId, pid) ==
    \E b \in be : b.storyId = storyId /\ b.participantId = pid

\* The vote insert with ON CONFLICT DO NOTHING: the first value is kept.
UpsertVote_KeepFirst(vo, storyId, pid, val) ==
    IF HasVote(vo, storyId, pid) THEN vo
    ELSE vo \cup {[storyId |-> storyId, participantId |-> pid, voteValue |-> val]}

UpsertVote(vo, storyId, pid, val) ==
    IF HasVote(vo, storyId, pid)
    THEN {IF v.storyId = storyId /\ v.participantId = pid
             THEN [v EXCEPT !.voteValue = val] ELSE v : v \in vo}
    ELSE vo \cup {[storyId |-> storyId, participantId |-> pid, voteValue |-> val]}

\* The bet insert without its ON CONFLICT clause and without unique_bet_uq.
UpsertBet_Append(be, storyId, pid, val) ==
    be \cup {[storyId |-> storyId, participantId |-> pid, betValue |-> val]}

UpsertBet(be, storyId, pid, val) ==
    IF HasBet(be, storyId, pid)
    THEN {IF b.storyId = storyId /\ b.participantId = pid
             THEN [b EXCEPT !.betValue = val] ELSE b : b \in be}
    ELSE be \cup {[storyId |-> storyId, participantId |-> pid, betValue |-> val]}

\* revealVotes flipping the flag instead of setting it.
RevealSession_Toggle(se, sid) ==
    {IF s.id = sid THEN [s EXCEPT !.votesRevealed = ~@] ELSE s : s \in se}

\* revealVotes' update without its WHERE clause.
RevealSession_Everywhere(se, sid) ==
    {[s EXCEPT !.votesRevealed = TRUE] : s \in se}

RevealSession(se, sid) ==
    {IF s.id = sid THEN [s EXCEPT !.votesRevealed = TRUE] ELSE s : s \in se}

\* votesRevealed: false, currentStoryId: input.nextStoryId ?? null
ClearSession(se, sid, next) ==
    {IF s.id = sid
        THEN [s EXCEPT !.votesRevealed = FALSE, !.currentStoryId = next]
        ELSE s : s \in se}

\* if (input.nextStoryId): an omitted id and the number 0 are both falsy.
Truthy(next) == next # NULL /\ next # 0

\* clearVotesAndNextStory without the deactivation before the activation.
ClearDeactivateAll_Skip(st, sid) == st

ClearDeactivateAll(st, sid) ==
    {IF s.sessionId = sid THEN [s EXCEPT !.isActive = FALSE] ELSE s : s \in st}

\* The activation written as a replacement of the session's story rows by
\* the targeted one.
ActivateStory_Replace(st, id, sid) ==
    {[s EXCEPT !.isActive = TRUE] :
        s \in {t \in st : t.sessionId # sid \/ t.id = id}}

\* An activation by story id alone, whatever session the story is of.
ActivateStory_AnySession(st, id, sid) ==
    {IF s.id = id THEN [s EXCEPT !.isActive = TRUE] ELSE s : s \in st}

ActivateStory(st, id, sid) ==
    {IF s.id = id /\ s.sessionId = sid
        THEN [s EXCEPT !.isActive = TRUE] ELSE s : s \in st}

\* clearVotesAndNextStory without the deactivation of the active story.
DeactivateActive_Skip(st, sid) == st

DeactivateActive(st, sid) ==
    {IF s.sessionId = sid /\ s.isActive
        THEN [s EXCEPT !.isActive = FALSE] ELSE s : s \in st}

\* ------------------------------------------------------------ read path
\* A nullable list of rows: null, or the rows found.
Null == [null |-> TRUE]
Rows(S) == [null |-> FALSE, rows |-> S]

\* The findFirst of getSessionDetails without its "with" relations.
SessionDetails_Bare(se, pa, st, sid) ==
    {[ id |-> s.id,
       currentStoryId |-> s.currentStoryId,
       votesRevealed |-> s.votesRevealed,
       participants |-> {},
       stories |-> {} ] : s \in FindSession(se, sid)}

\* The findFirst of getSessionDetails: the session row with its participants
\* and its stories, read by one query.
SessionDetails(se, pa, st, sid) ==
    {[ id |-> s.id,
       currentStoryId |-> s.currentStoryId,
       votesRevealed |-> s.votesRevealed,
       participants |-> {p \in pa : p.sessionId = sid},
       stories |-> {t \in st : t.sessionId = sid} ] : s \in FindSession(se, sid)}

\* votes.findMany without its WHERE clause.
StoryVotes_All(vo, pa, cur) ==
    {[storyId |-> v.storyId, participantId |-> v.participantId,
      voteValue |-> v.voteValue,
      participant |-> {[id |-> p.id, name |-> p.userId] :
                       p \in {q \in pa : q.id = v.participantId}}]
     : v \in vo}

\* votes.findMany of a story, each row with its participant's id and name.
StoryVotes(vo, pa, cur) ==
    {[storyId |-> v.storyId, participantId |-> v.participantId,
      voteValue |-> v.voteValue,
      participant |-> {[id |-> p.id, name |-> p.userId] :
                       p \in {q \in pa : q.id = v.participantId}}]
     : v \in {w \in vo : w.storyId = cur}}

\* bets.findMany of a story, each row with its participant's id and name.
StoryBets(be, pa, cur) ==
    {[storyId |-> b.storyId, participantId |-> b.participantId,
      betValue |-> b.betValue,
      participant |-> {[id |-> p.id, name |-> p.userId] :
                       p \in {q \in pa : q.id = b.participantId}}]
     : b \in {w \in be : w.storyId = cur}}

\* getSessionDetails' result: the session details, the active story's id and
\* the nullable vote and bet lists.
SessionView(details, cur, storyVotes, storyBets) ==
    [ session |-> details,
      currentStory |-> cur,
      votes |-> storyVotes,
      bets |-> storyBets,
      pokerValues |-> POKER_VALUES ]

\* ------------------------------------------------------------- call log
Ok(op, arg, ret)   == [op |-> op, arg |-> arg, ok |-> TRUE,  err |-> "", ret |-> ret]
Nothing == [nothing |-> TRUE]
Fail(op, arg, err) == [op |-> op, arg |-> arg, ok |-> FALSE, err |-> err, ret |-> Nothing]
NoCall == [op |-> "none", arg |-> Nothing, ok |-> FALSE, err |-> "", ret |-> Nothing]
Idle   == [pc |-> "idle", arg |-> Nothing, loc |-> Nothing, res |-> NoCall]

RowCount == Cardinality(sessions) + Cardinality(participants)
            + Cardinality(stories) + Cardinality(votes) + Cardinality(bets)

\* Room for n more rows.
Room(n) == RowCount + n <= MaxRows

Tables == [sessions |-> sessions, participants |-> participants,
           stories |-> stories, votes |-> votes, bets |-> bets]

\* A handler starts only when the previous call's result has been taken.
Ready == last = NoCall

Completes(res) == /\ Ready
                  /\ before' = Tables
                  /\ last' = res

\* The caller takes the result of its call (the mutation's promise settles),
\* after which the next call may be made.
Return ==
    /\ last # NoCall
    /\ last' = NoCall
    /\ before' = Tables
    /\ UNCHANGED <<store, conc>>

Init ==
    /\ sessions = {}
    /\ participants = {}
    /\ stories = {}
    /\ votes = {}
    /\ bets = {}
    /\ serial = [participants |-> 1, stories |-> 1]
    /\ last = NoCall
    /\ before = Tables
    /\ calls = [c \in Clients |-> Idle]
    /\ started = 0

\* --------------------------------------------- handlers, one step each
createSession(hostName) ==
    \E sessionId \in nanoid(sessions) :
      LET arg == [hostName |-> hostName, sessionId |-> sessionId] IN
      /\ serial.participants <= MaxParticipants
      /\ Room(2)
      /\ IF FindSession(sessions, sessionId) # {}
         THEN \* primary key of sessions: the insert throws
              /\ Completes(Fail("createSession", arg, ErrStore))
              /\ UNCHANGED <<store, conc>>
         ELSE /\ sessions' = InsertSession(sessions, sessionId)
              /\ participants' = InsertParticipant(participants,
                                    serial.participants, sessionId, hostName, TRUE)
              /\ serial' = [serial EXCEPT !.participants = @ + 1]
              /\ Completes(Ok("createSession", arg,
                              [sessionId |-> sessionId,
                               hostId |-> serial.participants,
                               hostName |-> hostName]))
              /\ UNCHANGED <<stories, votes, bets, conc>>

joinSession(sessionId, userName) ==
    LET arg == [sessionId |-> sessionId, userName |-> userName]
        found == FindParticipantByName(participants, sessionId, userName)
    IN
    IF FindSession(sessions, sessionId) = {}
    THEN /\ Completes(Fail("joinSession", arg, ErrSessionNotFound))
         /\ UNCHANGED <<store, conc>>
    ELSE IF found # {}
    THEN /\ Completes(Ok("joinSession", arg,
                         [sessionId |-> sessionId, participantId |-> Row(found).id,
                          participantName |-> Row(found).userId,
                          isHost |-> Row(found).isHost]))
         /\ UNCHANGED <<store, conc>>
    ELSE /\ serial.participants <= MaxParticipants
         /\ Room(1)
         /\ participants' = InsertParticipant(participants, serial.participants,
                                              sessionId, userName, FALSE)
         /\ serial' = [serial EXCEPT !.participants = @ + 1]
         /\ Completes(Ok("joinSession", arg,
                         [sessionId |-> sessionId,
                          participantId |-> serial.participants,
                          participantName |-> userName, isHost |-> FALSE]))
         /\ UNCHANGED <<sessions, stories, votes, bets, conc>>

addStory(sessionId) ==
    LET arg == [sessionId |-> sessionId]
        newId == serial.stories
    IN
    IF FindSession(sessions, sessionId) = {}
    THEN /\ Completes(Fail("addStory", arg, ErrSessionNotFound))
         /\ UNCHANGED <<store, conc>>
    ELSE /\ serial.stories <= MaxStories
         /\ Room(1)
         /\ stories' = InsertStory(AddStoryDeactivate(stories, sessionId),
                                   newId, sessionId)
         /\ serial' = [serial EXCEPT !.stories = @ + 1]
         /\ sessions' = SetCurrentStory(sessions, sessionId, newId)
         /\ Completes(Ok("addStory", arg,
                         [id |-> newId, sessionId |-> sessionId, isActive |-> TRUE]))
         /\ UNCHANGED <<participants, votes, bets, conc>>

castVote(sessionId, participantId, voteValue) ==
    LET arg == [sessionId |-> sessionId, participantId |-> participantId,
                voteValue |-> voteValue]
    IN
    IF ~ValidVoteValue(voteValue)
    THEN /\ Completes(Fail("castVote", arg, ErrInvalidVote))
         /\ UNCHANGED <<store, conc>>
    ELSE \E currentStory \in getCurrentStory(stories, sessionId) :
      IF currentStory = NULL
      THEN /\ Completes(Fail("castVote", arg, ErrNoStoryToVote))
           /\ UNCHANGED <<store, conc>>
      ELSE IF FindParticipantInSession(participants, participantId, sessionId) = {}
      THEN /\ Completes(Fail("castVote", arg, ErrParticipant))
           /\ UNCHANGED <<store, conc>>
      ELSE /\ HasVote(votes, currentStory, participantId)
              \/ (Cardinality(votes) < MaxVotes /\ Room(1))
           /\ votes' = UpsertVote(votes, currentStory, participantId, voteValue)
           /\ Completes(Ok("castVote", arg,
                           [storyId |-> currentStory,
                            participantId |-> participantId,
                            voteValue |-> voteValue]))
           /\ UNCHANGED <<sessions, participants, stories, bets, serial, conc>>

revealVotes(sessionId) ==
    LET arg == [sessionId |-> sessionId] IN
    \E currentStory \in getCurrentStory(stories, sessionId) :
      IF currentStory = NULL
      THEN /\ Completes(Fail("revealVotes", arg, ErrNoStoryToReveal))
           /\ UNCHANGED <<store, conc>>
      ELSE /\ sessions' = RevealSession(sessions, sessionId)
           /\ Completes(Ok("revealVotes", arg, [success |-> TRUE]))
           /\ UNCHANGED <<participants, stories, votes, bets, serial, conc>>

clearVotesAndNextStory(sessionId, nextStoryId) ==
    LET arg == [sessionId |-> sessionId, nextStoryId |-> nextStoryId] IN
    /\ sessions' = ClearSession(sessions, sessionId, nextStoryId)
    /\ stories' = IF Truthy(nextStoryId)
                  THEN ActivateStory(ClearDeactivateAll(stories, sessionId),
                                     nextStoryId, sessionId)
                  ELSE DeactivateActive(stories, sessionId)
    /\ Completes(Ok("clearVotesAndNextStory", arg, [success |-> TRUE]))
    /\ UNCHANGED <<participants, votes, bets, serial, conc>>

createBet(storyId, participantId, betValue) ==
    LET arg == [storyId |-> storyId, participantId |-> participantId,
                betValue |-> betValue]
        found == FindStory(stories, storyId)
        story == Row(found)
    IN
    IF found = {}
    THEN /\ Completes(Fail("createBet", arg, ErrStoryNotFound))
         /\ UNCHANGED <<store, conc>>
    ELSE IF ~story.isActive
    THEN /\ Completes(Fail("createBet", arg, ErrInactiveStory))
         /\ UNCHANGED <<store, conc>>
    ELSE IF FindParticipantInSession(participants, participantId, story.sessionId) = {}
    THEN /\ Completes(Fail("createBet", arg, ErrBetParticipant))
         /\ UNCHANGED <<store, conc>>
    ELSE /\ HasBet(bets, storyId, participantId)
            \/ (Cardinality(bets) < MaxBets /\ Room(1))
         /\ bets' = UpsertBet(bets, storyId, participantId, betValue)
         /\ Completes(Ok("createBet", arg,
                         [storyId |-> storyId, participantId |-> participantId,
                          betValue |-> betValue]))
         /\ UNCHANGED <<sessions, participants, stories, votes, serial, conc>>

getSessionDetails(sessionId) ==
    LET arg == [sessionId |-> sessionId]
        sessionDetails == SessionDetails(sessions, participants, stories, sessionId)
    IN
    IF sessionDetails = {}
    THEN /\ Completes(Fail("getSessionDetails", arg, ErrSessionNotFound))
         /\ UNCHANGED <<store, conc>>
    ELSE \E activeStory \in getCurrentStory(stories, sessionId) :
         /\ Completes(Ok("getSessionDetails", arg,
               IF activeStory = NULL
               THEN SessionView(Row(sessionDetails), NULL, Null, Null)
               ELSE SessionView(Row(sessionDetails), activeStory,
                       Rows(StoryVotes(votes, participants, activeStory)),
                       Rows(StoryBets(bets, participants, activeStory)))))
         /\ UNCHANGED <<store, conc>>

Next ==
    \/ \E n \in UserNames : createSession(n)
    \/ \E s \in SessionInputs, n \in UserNames : joinSession(s, n)
    \/ \E s \in SessionInputs : addStory(s)
    \/ \E s \in SessionInputs, p \in ParticipantInputs, v \in VoteInputs :
          castVote(s, p, v)
    \/ \E s \in SessionInputs : revealVotes(s)
    \/ \E s \in SessionInputs, n \in StoryInputs \cup {NULL} :
          clearVotesAndNextStory(s, n)
    \/ \E i \in StoryInputs, p \in ParticipantInputs, v \in BetInputs :
          createBet(i, p, v)
    \/ \E s \in SessionInputs : getSessionDetails(s)
    \/ Return

Spec == Init /\ [][Next]_vars

\* ----------------------------------- handlers, one store statement a step
\* SpecConc: each client runs one call at a time; a step of a call is the
\* part of its handler up to and including its next awaited store statement.
\* calls[c].pc names the statement the call in flight executes next, loc
\* holds the handler's local variables, res the result of the finished call.
At(c, pc) == calls[c].pc = pc

Goto(c, pc, loc) ==
    calls' = [calls EXCEPT ![c] = [pc |-> pc, arg |-> calls[c].arg,
                                   loc |-> loc, res |-> NoCall]]

Enter(c, pc, arg, loc) ==
    calls' = [calls EXCEPT ![c] = [pc |-> pc, arg |-> arg,
                                   loc |-> loc, res |-> NoCall]]

\* The call settles: the client is left with what the handler returned or
\* threw.
Finish(c, res) ==
    calls' = [calls EXCEPT ![c] = [pc |-> "done", arg |-> Nothing,
                                   loc |-> Nothing,
                                   res |-> [res EXCEPT !.arg = Nothing]]]

\* A client makes its next call once its previous one has settled.
Begin(c) ==
    /\ calls[c].pc \in {"idle", "done"}
    /\ started < MaxCalls
    /\ started' = started + 1
    /\ UNCHANGED <<last, before>>

\* A statement that waits until no other call is in flight.
Step_Exclusive(c, pc) ==
    /\ At(c, pc)
    /\ \A d \in Clients \ {c} : calls[d].pc \in {"idle", "done"}
    /\ UNCHANGED <<started, last, before>>

Step(c, pc) ==
    /\ At(c, pc)
    /\ UNCHANGED <<started, last, before>>

createSession_insertSession(c, hostName) ==
    \E sessionId \in nanoid(sessions) :
      LET arg == [hostName |-> hostName, sessionId |-> sessionId] IN
      /\ Begin(c)
      /\ IF FindSession(sessions, sessionId) # {}
         THEN /\ Finish(c, Fail("createSession", arg, ErrStore))
              /\ UNCHANGED store
         ELSE /\ sessions' = InsertSession(sessions, sessionId)
              /\ Enter(c, "createSession:insertParticipant", arg, Nothing)
              /\ UNCHANGED <<participants, stories, votes, bets, serial>>

createSession_insertParticipant(c) ==
    LET arg == calls[c].arg IN
    /\ Step(c, "createSession:insertParticipant")
    /\ serial' = [serial EXCEPT !.participants = @ + 1]
    /\ IF UserInSession(participants, arg.sessionId, arg.hostName) # {}
       THEN \* unique_user_in_session_uq: the insert throws
            /\ Finish(c, Fail("createSession", arg, ErrStore))
            /\ UNCHANGED <<sessions, participants, stories, votes, bets>>
       ELSE /\ participants' = InsertParticipant(participants, serial.participants,
                                                 arg.sessionId, arg.hostName, TRUE)
            /\ Finish(c, Ok("createSession", arg,
                            [sessionId |-> arg.sessionId,
                             hostId |-> serial.participants,
                             hostName |-> arg.hostName]))
            /\ UNCHANGED <<sessions, stories, votes, bets>>

joinSession_findSession(c, sessionId, userName) ==
    LET arg == [sessionId |-> sessionId, userName |-> userName] IN
    /\ Begin(c)
    /\ IF FindSession(sessions, sessionId) = {}
       THEN Finish(c, Fail("joinSession", arg, ErrSessionNotFound))
       ELSE Enter(c, "joinSession:findParticipant", arg, Nothing)
    /\ UNCHANGED store

joinSession_findParticipant(c) ==
    LET arg == calls[c].arg
        found == FindParticipantByName(participants, arg.sessionId, arg.userName)
    IN
    /\ Step(c, "joinSession:findParticipant")
    /\ IF found # {}
       THEN Finish(c, Ok("joinSession", arg,
                         [sessionId |-> arg.sessionId,
                          participantId |-> Row(found).id,
                          participantName |-> Row(found).userId,
                          isHost |-> Row(found).isHost]))
       ELSE Goto(c, "joinSession:insert", Nothing)
    /\ UNCHANGED store

joinSession_insert(c) ==
    LET arg == calls[c].arg IN
    /\ Step(c, "joinSession:insert")
    /\ serial' = [serial EXCEPT !.participants = @ + 1]
    /\ IF UserInSession(participants, arg.sessionId, arg.userName) # {}
       THEN \* unique_user_in_session_uq: the insert throws
            /\ Finish(c, Fail("joinSession", arg, ErrStore))
            /\ UNCHANGED <<sessions, participants, stories, votes, bets>>
       ELSE /\ participants' = InsertParticipant(participants, serial.participants,
                                                 arg.sessionId, arg.userName, FALSE)
            /\ Finish(c, Ok("joinSession", arg,
                            [sessionId |-> arg.sessionId,
                             participantId |-> serial.participants,
                             participantName |-> arg.userName,
                             isHost |-> FALSE]))
            /\ UNCHANGED <<sessions, stories, votes, bets>>

addStory_findSession(c, sessionId) ==
    LET arg == [sessionId |-> sessionId] IN
    /\ Begin(c)
    /\ IF FindSession(sessions, sessionId) = {}
       THEN Finish(c, Fail("addStory", arg, ErrSessionNotFound))
       ELSE Enter(c, "addStory:deactivate", arg, Nothing)
    /\ UNCHANGED store

addStory_deactivate(c) ==
    /\ Step(c, "addStory:deactivate")
    /\ stories' = AddStoryDeactivate(stories, calls[c].arg.sessionId)
    /\ Goto(c, "addStory:insert", Nothing)
    /\ UNCHANGED <<sessions, participants, votes, bets, serial>>

addStory_insert(c) ==
    /\ Step(c, "addStory:insert")
    /\ stories' = InsertStory(stories, serial.stories, calls[c].arg.sessionId)
    /\ serial' = [serial EXCEPT !.stories = @ + 1]
    /\ Goto(c, "addStory:updateSession", [newStory |-> serial.stories])
    /\ UNCHANGED <<sessions, participants, votes, bets>>

addStory_updateSession(c) ==
    LET arg == calls[c].arg
        newId == calls[c].loc.newStory
    IN
    /\ Step(c, "addStory:updateSession")
    /\ sessions' = SetCurrentStory(sessions, arg.sessionId, newId)
    /\ Finish(c, Ok("addStory", arg,
                    [id |-> newId, sessionId |-> arg.sessionId, isActive |-> TRUE]))
    /\ UNCHANGED <<participants, stories, votes, bets, serial>>

castVote_getCurrentStory(c, sessionId, participantId, voteValue) ==
    LET arg == [sessionId |-> sessionId, participantId |-> participantId,
                voteValue |-> voteValue]
    IN
    /\ Begin(c)
    /\ IF ~ValidVoteValue(voteValue)
       THEN Finish(c, Fail("castVote", arg, ErrInvalidVote))
       ELSE \E currentStory \in getCurrentStory(stories, sessionId) :
               IF currentStory = NULL
               THEN Finish(c, Fail("castVote", arg, ErrNoStoryToVote))
               ELSE Enter(c, "castVote:findParticipant", arg,
                          [currentStory |-> currentStory])
    /\ UNCHANGED store

castVote_findParticipant(c) ==
    LET arg == calls[c].arg IN
    /\ Step(c, "castVote:findParticipant")
    /\ IF FindParticipantInSession(participants, arg.participantId,
                                   arg.sessionId) = {}
       THEN Finish(c, Fail("castVote", arg, ErrParticipant))
       ELSE Goto(c, "castVote:upsert", calls[c].loc)
    /\ UNCHANGED store

castVote_upsert(c) ==
    LET arg == calls[c].arg
        currentStory == calls[c].loc.currentStory
    IN
    /\ Step(c, "castVote:upsert")
    /\ votes' = UpsertVote(votes, currentStory, arg.participantId, arg.voteValue)
    /\ Finish(c, Ok("castVote", arg,
                    [storyId |-> currentStory,
                     participantId |-> arg.participantId,
                     voteValue |-> arg.voteValue]))
    /\ UNCHANGED <<sessions, participants, stories, bets, serial>>

revealVotes_getCurrentStory(c, sessionId) ==
    LET arg == [sessionId |-> sessionId] IN
    /\ Begin(c)
    /\ \E currentStory \in getCurrentStory(stories, sessionId) :
          IF currentStory = NULL
          THEN Finish(c, Fail("revealVotes", arg, ErrNoStoryToReveal))
          ELSE Enter(c, "revealVotes:update", arg, Nothing)
    /\ UNCHANGED store

revealVotes_update(c) ==
    /\ Step(c, "revealVotes:update")
    /\ sessions' = RevealSession(sessions, calls[c].arg.sessionId)
    /\ Finish(c, Ok("revealVotes", calls[c].arg, [success |-> TRUE]))
    /\ UNCHANGED <<participants, stories, votes, bets, serial>>

clearVotes_updateSession(c, sessionId, nextStoryId) ==
    LET arg == [sessionId |-> sessionId, nextStoryId |-> nextStoryId] IN
    /\ Begin(c)
    /\ sessions' = ClearSession(sessions, sessionId, nextStoryId)
    /\ Enter(c, IF Truthy(nextStoryId) THEN "clearVotes:deactivateAll"
                ELSE "clearVotes:deactivateActive", arg, Nothing)
    /\ UNCHANGED <<participants, stories, votes, bets, serial>>

clearVotes_deactivateAll(c) ==
    /\ Step(c, "clearVotes:deactivateAll")
    /\ stories' = ClearDeactivateAll(stories, calls[c].arg.sessionId)
    /\ Goto(c, "clearVotes:activate", Nothing)
    /\ UNCHANGED <<sessions, participants, votes, bets, serial>>

clearVotes_activate(c) ==
    /\ Step(c, "clearVotes:activate")
    /\ stories' = ActivateStory(stories, calls[c].arg.nextStoryId,
                                calls[c].arg.sessionId)
    /\ Finish(c, Ok("clearVotesAndNextStory", calls[c].arg, [success |-> TRUE]))
    /\ UNCHANGED <<sessions, participants, votes, bets, serial>>

clearVotes_deactivateActive(c) ==
    /\ Step(c, "clearVotes:deactivateActive")
    /\ stories' = DeactivateActive(stories, calls[c].arg.sessionId)
    /\ Finish(c, Ok("clearVotesAndNextStory", calls[c].arg, [success |-> TRUE]))
    /\ UNCHANGED <<sessions, participants, votes, bets, serial>>

createBet_findStory(c, storyId, participantId, betValue) ==
    LET arg == [storyId |-> storyId, participantId |-> participantId,
                betValue |-> betValue]
        found == FindStory(stories, storyId)
    IN
    /\ Begin(c)
    /\ IF found = {}
       THEN Finish(c, Fail("createBet", arg, ErrStoryNotFound))
       ELSE IF ~Row(found).isActive
       THEN Finish(c, Fail("createBet", arg, ErrInactiveStory))
       ELSE Enter(c, "createBet:findParticipant", arg,
                  [sessionId |-> Row(found).sessionId])
    /\ UNCHANGED store

createBet_findParticipant(c) ==
    /\ Step(c, "createBet:findParticipant")
    /\ IF FindParticipantInSession(participants, calls[c].arg.participantId,
                                   calls[c].loc.sessionId) = {}
       THEN Finish(c, Fail("createBet", calls[c].arg, ErrBetParticipant))
       ELSE Goto(c, "createBet:upsert", Nothing)
    /\ UNCHANGED store

createBet_upsert(c) ==
    LET arg == calls[c].arg IN
    /\ Step(c, "createBet:upsert")
    /\ bets' = UpsertBet(bets, arg.storyId, arg.participantId, arg.betValue)
    /\ Finish(c, Ok("createBet", arg,
                    [storyId |-> arg.storyId, participantId |-> arg.participantId,
                     betValue |-> arg.betValue]))
    /\ UNCHANGED <<sessions, participants, stories, votes, serial>>

getSessionDetails_findSession(c, sessionId) ==
    LET arg == [sessionId |-> sessionId]
        sessionDetails == SessionDetails(sessions, participants, stories, sessionId)
    IN
    /\ Begin(c)
    /\ IF sessionDetails = {}
       THEN Finish(c, Fail("getSessionDetails", arg, ErrSessionNotFound))
       ELSE Enter(c, "getSessionDetails:getCurrentStory", arg,
                  [sessionDetails |-> Row(sessionDetails)])
    /\ UNCHANGED store

getSessionDetails_getCurrentStory(c) ==
    /\ Step(c, "getSessionDetails:getCurrentStory")
    /\ \E activeStory \in getCurrentStory(stories, calls[c].arg.sessionId) :
          IF activeStory = NULL
          THEN Finish(c, Ok("getSessionDetails", calls[c].arg,
                            SessionView(calls[c].loc.sessionDetails,
                                        NULL, Null, Null)))
          ELSE Goto(c, "getSessionDetails:votes",
                    [sessionDetails |-> calls[c].loc.sessionDetails,
                     activeStory |-> activeStory])
    /\ UNCHANGED store

getSessionDetails_votes(c) ==
    /\ Step(c, "getSessionDetails:votes")
    /\ Goto(c, "getSessionDetails:bets",
            [sessionDetails |-> calls[c].loc.sessionDetails,
             activeStory |-> calls[c].loc.activeStory,
             storyVotes |-> StoryVotes(votes, participants,
                                       calls[c].loc.activeStory)])
    /\ UNCHANGED store

getSessionDetails_bets(c) ==
    /\ Step(c, "getSessionDetails:bets")
    /\ Finish(c, Ok("getSessionDetails", calls[c].arg,
                    SessionView(calls[c].loc.sessionDetails,
                                calls[c].loc.activeStory,
                                Rows(calls[c].loc.storyVotes),
                                Rows(StoryBets(bets, participants,
                                               calls[c].loc.activeStory)))))
    /\ UNCHANGED store

\* The clients of SpecConc all address the first session.
ConcSessionInputs == {SessionIds[1]}

NextConc ==
    \E c \in Clients :
       \/ \E n \in UserNames : createSession_insertSession(c, n)
       \/ createSession_insertParticipant(c)
       \/ \E s \in ConcSessionInputs, n \in UserNames : joinSession_findSession(c, s, n)
       \/ joinSession_findParticipant(c)
       \/ joinSession_insert(c)
       \/ \E s \in ConcSessionInputs : addStory_findSession(c, s)
       \/ addStory_deactivate(c)
       \/ addStory_insert(c)
       \/ addStory_updateSession(c)
       \/ \E s \in ConcSessionInputs, p \in ParticipantInputs, v \in VoteInputs :
             castVote_getCurrentStory(c, s, p, v)
       \/ castVote_findParticipant(c)
       \/ castVote_upsert(c)
       \/ \E s \in ConcSessionInputs : revealVotes_getCurrentStory(c, s)
       \/ revealVotes_update(c)
       \/ \E s \in ConcSessionInputs, n \in StoryInputs \cup {NULL} :
             clearVotes_updateSession(c, s, n)
       \/ clearVotes_deactivateAll(c)
       \/ clearVotes_activate(c)
       \/ clearVotes_deactivateActive(c)
       \/ \E i \in StoryInputs, p \in ParticipantInputs, v \in BetInputs :
             createBet_findStory(c, i, p, v)
       \/ createBet_findParticipant(c)
       \/ createBet_upsert(c)
       \/ \E s \in ConcSessionInputs : getSessionDetails_findSession(c, s)
       \/ getSessionDetails_getCurrentStory(c)
       \/ getSessionDetails_votes(c)
       \/ getSessionDetails_bets(c)

SpecConc == Init /\ [][NextConc]_vars

\* The statements of client c's call in flight: each is an await on the store
\* that resumes the handler when the store has answered.
ConcStep(c) ==
    \/ createSession_insertParticipant(c)
    \/ joinSession_findParticipant(c)
    \/ joinSession_insert(c)
    \/ addStory_deactivate(c)
    \/ addStory_insert(c)
    \/ addStory_updateSession(c)
    \/ castVote_findParticipant(c)
    \/ castVote_upsert(c)
    \/ revealVotes_update(c)
    \/ clearVotes_deactivateAll(c)
    \/ clearVotes_activate(c)
    \/ clearVotes_deactivateActive(c)
    \/ createBet_findParticipant(c)
    \/ createBet_upsert(c)
    \/ getSessionDetails_getCurrentStory(c)
    \/ getSessionDetails_votes(c)
    \/ getSessionDetails_bets(c)

\* SpecFair: SpecConc with the store answering every statement it is sent.
SpecFair == Init /\ [][NextConc]_vars /\ \A c \in Clients : WF_vars(ConcStep(c))

\* SpecValid: SpecConc with callers that pass clearVotesAndNextStory only
\* what the page passes: no nextStoryId, or the id of a story of the session
\* (a story picked from the session's story list).
ValidNextStory(c) ==
    (/\ calls[c].pc \in {"idle", "done"}
     /\ calls'[c].pc \in {"clearVotes:deactivateAll", "clearVotes:deactivateActive"})
    => \/ calls'[c].arg.nextStoryId = NULL
       \/ \E s \in stories : /\ s.id = calls'[c].arg.nextStoryId
                             /\ s.sessionId = calls'[c].arg.sessionId

NextValid == NextConc /\ \A c \in Clients : ValidNextStory(c)

SpecValid == Init /\ [][NextValid]_vars

\* ------------------------------------------------ the page's polling query
\* SpecPoll: the handlers run one step each, as in Spec, for the session the
\* pages are open on; every client's page re-runs its getSessionDetails query
\* on a timer (refetchInterval) and keeps the last result as its view, in
\* calls[c].res.
PollSession == SessionIds[1]

\* What getSessionDetails can return for the session in the current state
\* (empty when it throws).
PollResults ==
    LET arg == [sessionId |-> PollSession]
        sessionDetails == SessionDetails(sessions, participants, stories, PollSession)
    IN  {Ok("getSessionDetails", arg,
            IF activeStory = NULL
            THEN SessionView(Row(sessionDetails), NULL, Null, Null)
            ELSE SessionView(Row(sessionDetails), activeStory,
                    Rows(StoryVotes(votes, participants, activeStory)),
                    Rows(StoryBets(bets, participants, activeStory)))) :
         activeStory \in IF sessionDetails = {} THEN {}
                         ELSE getCurrentStory(stories, PollSession)}

\* A query that never refetches once it has data.
PollData_KeepFirst(old, new) == IF old = NoCall THEN new ELSE old

\* useQuery's data after a successful fetch: the fetched result.
PollData(old, new) == new

\* One refetch of the page's query: on success the result becomes the view,
\* on an error the view is kept.
Poll(c) ==
    /\ \/ /\ PollResults = {}
          /\ UNCHANGED calls
       \/ \E new \in PollResults :
             calls' = [calls EXCEPT ![c].res = PollData(@, new)]
    /\ UNCHANGED <<store, started, last, before>>

\* The users of the pages make calls while the store holds fewer than
\* MaxPollRows rows.
PollRoom == RowCount < MaxPollRows

NextPoll ==
    \/ PollRoom /\ \E n \in UserNames : createSession(n)
    \/ PollRoom /\ \E n \in UserNames : joinSession(PollSession, n)
    \/ PollRoom /\ addStory(PollSession)
    \/ PollRoom /\ \E p \in ParticipantInputs, v \in VoteInputs :
                      castVote(PollSession, p, v)
    \/ PollRoom /\ revealVotes(PollSession)
    \/ PollRoom /\ \E n \in StoryInputs \cup {NULL} :
                      clearVotesAndNextStory(PollSession, n)
    \/ PollRoom /\ \E i \in StoryInputs, p \in ParticipantInputs, v \in BetInputs :
                      createBet(i, p, v)
    \/ Return
    \/ \E c \in Clients : Poll(c)

\* The refetchInterval timer of every open page keeps firing.
SpecPoll == Init /\ [][NextPoll]_vars /\ \A c \in Clients : WF_vars(Poll(c))

\* ---------------------------------------------------------------------------
\* The home page: what the onSuccess callbacks of its two mutations write to
\* localStorage under "pokerUser-<sessionId>" from the call's result.
\* ---------------------------------------------------------------------------
createSessionMutation_onSuccess(data) ==
    [id |-> data.hostId, name |-> data.hostName, isHost |-> TRUE]

joinSessionMutation_onSuccess(data) ==
    [id |-> data.participantId, name |-> data.participantName, isHost |-> FALSE]

\* ---------------------------------------------------------------------------
\* SpecCross: the statements of the calls that write participants, stories,
\* votes and bets, interleaved between the clients and addressed to any of the
\* sessions.
\* ---------------------------------------------------------------------------
NextCross ==
    \E c \in Clients :
       \/ \E n \in UserNames : createSession_insertSession(c, n)
       \/ createSession_insertParticipant(c)
       \/ \E s \in SessionInputs, n \in UserNames : joinSession_findSession(c, s, n)
       \/ joinSession_findParticipant(c)
       \/ joinSession_insert(c)
       \/ \E s \in SessionInputs : addStory_findSession(c, s)
       \/ addStory_deactivate(c)
       \/ addStory_insert(c)
       \/ addStory_updateSession(c)
       \/ \E s \in SessionInputs, p \in ParticipantInputs, v \in VoteInputs :
             castVote_getCurrentStory(c, s, p, v)
       \/ castVote_findParticipant(c)
       \/ castVote_upsert(c)
       \/ \E s \in SessionInputs, n \in StoryInputs \cup {NULL} :
             clearVotes_updateSession(c, s, n)
       \/ clearVotes_deactivateAll(c)
       \/ clearVotes_activate(c)
       \/ clearVotes_deactivateActive(c)
       \/ \E i \in StoryInputs, p \in ParticipantInputs, v \in BetInputs :
             createBet_findStory(c, i, p, v)
       \/ createBet_findParticipant(c)
       \/ createBet_upsert(c)

SpecCross == Init /\ [][NextCross]_vars

\* ---------------------------------------------------------------------------
\* SpecPage: the voting controls of the session page.  Each client is an open
\* page whose view is the data of its last refetch; the page offers the vote
\* buttons from that view, the other users call the router directly.
\* ---------------------------------------------------------------------------

\* The story panel is rendered from the fetched session details and the vote
\* buttons are enabled while the view does not show the votes as revealed.
VoteEnabled(c) ==
    /\ calls[c].res # NoCall
    /\ calls[c].res.ret.currentStory # NULL
    /\ ~calls[c].res.ret.session.votesRevealed

\* handleCastVote: a click on one of the pokerValues buttons of the view sends
\* castVote for the page's session.
handleCastVote(c, participantId, voteValue) ==
    /\ VoteEnabled(c)
    /\ voteValue \in calls[c].res.ret.pokerValues
    /\ castVote(PollSession, participantId, voteValue)

PageRoom == RowCount < MaxPageRows

NextPage ==
    \/ PageRoom /\ \E n \in UserNames : createSession(n)
    \/ PageRoom /\ \E n \in UserNames : joinSession(PollSession, n)
    \/ PageRoom /\ addStory(PollSession)
    \/ PageRoom /\ \E c \in Clients, p \in ParticipantInputs, v \in VoteInputs :
                      handleCastVote(c, p, v)
    \/ PageRoom /\ revealVotes(PollSession)
    \/ PageRoom /\ \E n \in StoryInputs \cup {NULL} :
                      clearVotesAndNextStory(PollSession, n)
    \/ Return
    \/ \E c \in Clients : Poll(c)

SpecPage == Init /\ [][NextPage]_vars

\* ===================================================================
\* Properties
\* ===================================================================
ActiveStories(st, sid) == {s \in st : s.sessionId = sid /\ s.isActive}
StoriesOf(st, sid)     == {s \in st : s.sessionId = sid}
IsStoryOf(st, id, sid) == \E s \in st : s.id = id /\ s.sessionId = sid
VoteRows(vo, storyId, pid) ==
    {v \in vo : v.storyId = storyId /\ v.participantId = pid}
Did(op) == last.op = op

\* C1: after any sequence of complete, non-overlapping calls every session
\* has at most one story with isActive = TRUE.
C1_AtMostOneActive ==
    \A sid \in SessionInputs : Cardinality(ActiveStories(stories, sid)) <= 1

\* An addStory on a session that had an active story: two stories, one active.
C1_Witness ==
    /\ Did("addStory") /\ last.ok
    /\ ActiveStories(before.stories, last.arg.sessionId) # {}
    /\ Cardinality(StoriesOf(stories, last.arg.sessionId)) >= 2
    /\ Cardinality(ActiveStories(stories, last.arg.sessionId)) = 1

\* C2: at every instant, also between the store statements of addStory and
\* clearVotesAndNextStory calls that concurrent clients interleave, a session
\* has at most one active story.
C2_AtMostOneActiveAtEveryInstant ==
    \A s \in stories, t \in stories :
       s.sessionId = t.sessionId /\ s.isActive /\ t.isActive => s.id = t.id

\* C3: after every complete call, a non-null currentStoryId is the id of an
\* active story of the same session.
C3_CurrentStoryIsActive ==
    \A s \in sessions :
       s.currentStoryId # NULL =>
          \E t \in stories : /\ t.id = s.currentStoryId
                             /\ t.sessionId = s.id
                             /\ t.isActive

\* C4: after a successful castVote by p on the active story s the votes table
\* holds exactly one row for (s, p), with the value of that (latest) call;
\* in particular when an earlier castVote of p on s had stored another value.
C4_LastVoteWins ==
    Did("castVote") /\ last.ok =>
       /\ last.ret.storyId \in {t.id : t \in ActiveStories(stories, last.arg.sessionId)}
       /\ VoteRows(votes, last.ret.storyId, last.arg.participantId)
            = {[storyId |-> last.ret.storyId,
                participantId |-> last.arg.participantId,
                voteValue |-> last.arg.voteValue]}

\* The second cast: the pair already had a row, with another value.
C4_Witness ==
    /\ Did("castVote") /\ last.ok
    /\ \E v \in VoteRows(before.votes, last.ret.storyId, last.arg.participantId) :
          v.voteValue # last.arg.voteValue

\* C5: with castVote calls running concurrently, a (storyId, participantId)
\* pair never has more than one Vote row; a call that reaches its upsert
\* returns its vote (the conflict does not make it fail) and leaves the
\* pair's row with its value; and nothing but an upsert changes the votes,
\* so the value that stays is that of the upsert applied last.
C5_Upserting(c) == At(c, "castVote:upsert") /\ calls'[c].pc = "done"

C5_ConcurrentUpsert ==
    [][ /\ \A v \in votes', w \in votes' :
             v.storyId = w.storyId /\ v.participantId = w.participantId => v = w
        /\ \A c \in Clients :
             C5_Upserting(c) =>
                LET row == [storyId |-> calls[c].loc.currentStory,
                            participantId |-> calls[c].arg.participantId,
                            voteValue |-> calls[c].arg.voteValue]
                IN  /\ calls'[c].res.ok
                    /\ calls'[c].res.ret = row
                    /\ VoteRows(votes', row.storyId, row.participantId) = {row}
        /\ votes' # votes => \E c \in Clients : C5_Upserting(c)
      ]_vars

\* Two clients cast different values for the same pair: one call has returned
\* its vote, the other is at its upsert, which will hit the row of the first.
C5_Witness ==
    \E c \in Clients, d \in Clients :
       /\ calls[c].pc = "done" /\ calls[c].res.op = "castVote" /\ calls[c].res.ok
       /\ At(d, "castVote:upsert")
       /\ calls[d].loc.currentStory = calls[c].res.ret.storyId
       /\ calls[d].arg.participantId = calls[c].res.ret.participantId
       /\ calls[d].arg.voteValue # calls[c].res.ret.voteValue
       /\ calls[c].res.ret \in votes

\* C6: a successful joinSession leaves a participant row (sessionId, userName)
\* whose id it returns; no call removes or changes a participant row; and a
\* joinSession for which that row already exists returns the row's id and
\* leaves the participants table as it was.
C6_RejoinIdempotent ==
    /\ last # NoCall => before.participants \subseteq participants
    /\ Did("joinSession") /\ last.ok =>
          \E p \in UserInSession(participants, last.arg.sessionId, last.arg.userName) :
             p.id = last.ret.participantId
    /\ Did("joinSession") =>
          \A p \in UserInSession(before.participants,
                                 last.arg.sessionId, last.arg.userName) :
             /\ last.ok
             /\ last.ret.participantId = p.id
             /\ participants = before.participants

\* The second join: the name had joined (not created) the session before.
C6_Witness ==
    /\ Did("joinSession") /\ last.ok
    /\ \E p \in UserInSession(before.participants,
                              last.arg.sessionId, last.arg.userName) :
          ~p.isHost /\ p.id = last.ret.participantId
    /\ participants = before.participants

\* C7: addStory on an existing session succeeds and leaves votesRevealed =
\* FALSE, currentStoryId = the id of the story it inserted, that story active
\* and every other story of the session inactive.
C7_AddStoryStartsRound ==
    Did("addStory") /\ FindSession(before.sessions, last.arg.sessionId) # {} =>
       /\ last.ok
       /\ ~IsStoryOf(before.stories, last.ret.id, last.arg.sessionId)
       /\ \A s \in FindSession(sessions, last.arg.sessionId) :
             ~s.votesRevealed /\ s.currentStoryId = last.ret.id
       /\ FindSession(sessions, last.arg.sessionId) # {}
       /\ ActiveStories(stories, last.arg.sessionId)
            = {[id |-> last.ret.id, sessionId |-> last.arg.sessionId,
                isActive |-> TRUE]}

\* addStory on a session whose votes were revealed on an active story.
C7_Witness ==
    /\ Did("addStory") /\ last.ok
    /\ \E s \in FindSession(before.sessions, last.arg.sessionId) : s.votesRevealed
    /\ ActiveStories(before.stories, last.arg.sessionId) # {}

\* C8: clearVotesAndNextStory without nextStoryId leaves the session with no
\* active story, currentStoryId = NULL and votesRevealed = FALSE.
C8_ClearWithoutNext ==
    Did("clearVotesAndNextStory") /\ last.arg.nextStoryId = NULL =>
       /\ last.ok
       /\ ActiveStories(stories, last.arg.sessionId) = {}
       /\ \A s \in FindSession(sessions, last.arg.sessionId) :
             s.currentStoryId = NULL /\ ~s.votesRevealed

\* A clear of a session that had an active story with its votes revealed.
C8_Witness ==
    /\ Did("clearVotesAndNextStory") /\ last.arg.nextStoryId = NULL
    /\ ActiveStories(before.stories, last.arg.sessionId) # {}
    /\ \E s \in FindSession(before.sessions, last.arg.sessionId) :
          s.votesRevealed /\ s.currentStoryId # NULL

\* C9: clearVotesAndNextStory with the id of a story of the session leaves
\* exactly that story active in the session, currentStoryId = nextStoryId and
\* votesRevealed = FALSE.
C9_ClearWithNext ==
    Did("clearVotesAndNextStory")
    /\ IsStoryOf(before.stories, last.arg.nextStoryId, last.arg.sessionId) =>
       /\ last.ok
       /\ ActiveStories(stories, last.arg.sessionId)
            = {[id |-> last.arg.nextStoryId, sessionId |-> last.arg.sessionId,
                isActive |-> TRUE]}
       /\ \A s \in FindSession(sessions, last.arg.sessionId) :
             s.currentStoryId = last.arg.nextStoryId /\ ~s.votesRevealed

\* A switch from the active story to an earlier story of the session.
C9_Witness ==
    /\ Did("clearVotesAndNextStory")
    /\ IsStoryOf(before.stories, last.arg.nextStoryId, last.arg.sessionId)
    /\ \E a \in ActiveStories(before.stories, last.arg.sessionId) :
          a.id # last.arg.nextStoryId
    /\ \E s \in FindSession(before.sessions, last.arg.sessionId) : s.votesRevealed

\* C10: clearVotesAndNextStory with a nextStoryId that is not a story of the
\* session returns success and changes neither a session row nor a story row.
C10_ForeignNextIsNoOp ==
    Did("clearVotesAndNextStory")
    /\ last.arg.nextStoryId # NULL
    /\ ~IsStoryOf(before.stories, last.arg.nextStoryId, last.arg.sessionId) =>
       /\ last.ok
       /\ sessions = before.sessions
       /\ stories = before.stories

\* C11: revealVotes on a session that has no active story, or that does not
\* exist, fails with "No active story to reveal votes for." and changes no
\* row of any table (votesRevealed included).
C11_RevealWithoutStoryFails ==
    Did("revealVotes") /\ ActiveStories(before.stories, last.arg.sessionId) = {} =>
       /\ ~last.ok
       /\ last.err = ErrNoStoryToReveal
       /\ Tables = before

\* A reveal on an existing session whose only stories are inactive.
C11_Witness ==
    /\ Did("revealVotes") /\ ~last.ok
    /\ FindSession(before.sessions, last.arg.sessionId) # {}
    /\ StoriesOf(before.stories, last.arg.sessionId) # {}
    /\ ActiveStories(before.stories, last.arg.sessionId) = {}

\* C12: revealVotes on a session with an active story succeeds, sets the
\* session's votesRevealed to TRUE and changes nothing else; called again on
\* the already revealed session it succeeds and leaves every table as it was,
\* so two consecutive calls leave the state one call leaves.
C12_RevealIdempotent ==
    Did("revealVotes") /\ ActiveStories(before.stories, last.arg.sessionId) # {} =>
       /\ last.ok
       /\ last.ret = [success |-> TRUE]
       /\ sessions = {IF s.id = last.arg.sessionId
                         THEN [id |-> s.id, currentStoryId |-> s.currentStoryId,
                               votesRevealed |-> TRUE]
                         ELSE s : s \in before.sessions}
       /\ [Tables EXCEPT !.sessions = before.sessions] = before
       /\ (\A s \in FindSession(before.sessions, last.arg.sessionId) : s.votesRevealed)
             => Tables = before

\* The second reveal: the session was already revealed when the call started.
C12_Witness ==
    /\ Did("revealVotes") /\ last.ok
    /\ \E s \in FindSession(before.sessions, last.arg.sessionId) : s.votesRevealed
    /\ \E s \in FindSession(sessions, last.arg.sessionId) : s.votesRevealed

\* C13: castVote with a voteValue that is not in POKER_VALUES fails with
\* "Invalid vote value", whatever the session and the participant, and
\* leaves the votes table (and every other table) unchanged.
C13_InvalidVoteRejected ==
    Did("castVote") /\ last.arg.voteValue \notin POKER_VALUES =>
       /\ ~last.ok
       /\ last.err = ErrInvalidVote
       /\ votes = before.votes
       /\ Tables = before

\* "7" cast by a participant of a session that has an active story: the call
\* a legal value would have made succeed.
C13_Witness ==
    /\ Did("castVote") /\ last.arg.voteValue = "7"
    /\ ActiveStories(before.stories, last.arg.sessionId) # {}
    /\ FindParticipantInSession(before.participants, last.arg.participantId,
                                last.arg.sessionId) # {}

\* C14: castVote with a participantId that is not the id of a participant of
\* the given session (an unknown id, or a participant of another session)
\* fails and writes no Vote row; when the value is legal and the session has
\* an active story (the two checks made before this one pass) the error is
\* "Participant not found in this session".
C14_ForeignParticipantRejected ==
    (/\ Did("castVote")
     /\ ~(\E p \in before.participants :
            p.id = last.arg.participantId /\ p.sessionId = last.arg.sessionId))
    => /\ ~last.ok
       /\ votes = before.votes
       /\ Tables = before
       /\ (/\ last.arg.voteValue \in POKER_VALUES
           /\ ActiveStories(before.stories, last.arg.sessionId) # {})
          => last.err = ErrParticipant

\* A participant of another session casts a legal value on a session that has
\* an active story.
C14_Witness ==
    /\ Did("castVote") /\ last.err = ErrParticipant
    /\ last.arg.voteValue \in POKER_VALUES
    /\ ActiveStories(before.stories, last.arg.sessionId) # {}
    /\ \E p \in before.participants :
          p.id = last.arg.participantId /\ p.sessionId # last.arg.sessionId

\* C15: castVote on a session that has no active story fails and writes no
\* Vote row, with "No active story to vote on." when the value is legal (the
\* value is checked first); this is the state clearVotesAndNextStory without
\* nextStoryId leaves, so every castVote fails in it until a story of the
\* session is active again.
C15_VoteWithoutStoryFails ==
    Did("castVote") /\ ActiveStories(before.stories, last.arg.sessionId) = {} =>
       /\ ~last.ok
       /\ votes = before.votes
       /\ Tables = before
       /\ last.arg.voteValue \in POKER_VALUES => last.err = ErrNoStoryToVote

\* A participant of the session casts a legal value after the round was
\* cleared: the session has a story, none is active, currentStoryId is null.
C15_Witness ==
    /\ Did("castVote") /\ last.err = ErrNoStoryToVote
    /\ last.arg.voteValue \in POKER_VALUES
    /\ FindParticipantInSession(before.participants, last.arg.participantId,
                                last.arg.sessionId) # {}
    /\ StoriesOf(before.stories, last.arg.sessionId) # {}
    /\ ActiveStories(before.stories, last.arg.sessionId) = {}
    /\ \E s \in FindSession(before.sessions, last.arg.sessionId) :
          s.currentStoryId = NULL

\* C16: createBet fails and leaves every table unchanged when the story does
\* not exist ("Story not found for this bet."), when the story is not active
\* ("Bets can only be placed on active stories.") and when the participant is
\* not a participant of the story's session ("Participant not found in this
\* session."); the bets table changes only by a successful createBet whose
\* story exists, is active and whose participant is of the story's session.
C16_BetPreconditions ==
    /\ Did("createBet") =>
          LET found == {s \in before.stories : s.id = last.arg.storyId} IN
          /\ found = {} =>
                ~last.ok /\ last.err = ErrStoryNotFound /\ Tables = before
          /\ \A s \in found :
                ~s.isActive =>
                   ~last.ok /\ last.err = ErrInactiveStory /\ Tables = before
          /\ \A s \in found :
                (/\ s.isActive
                 /\ ~(\E p \in before.participants :
                        p.id = last.arg.participantId /\ p.sessionId = s.sessionId))
                => ~last.ok /\ last.err = ErrBetParticipant /\ Tables = before
    /\ (last # NoCall /\ bets # before.bets) =>
          /\ Did("createBet") /\ last.ok
          /\ \E s \in before.stories :
                /\ s.id = last.arg.storyId /\ s.isActive
                /\ \E p \in before.participants :
                      p.id = last.arg.participantId /\ p.sessionId = s.sessionId

\* A participant of another session bets on an active story.
C16_Witness ==
    /\ Did("createBet") /\ last.err = ErrBetParticipant
    /\ \E s \in before.stories :
          /\ s.id = last.arg.storyId /\ s.isActive
          /\ \E p \in before.participants :
                p.id = last.arg.participantId /\ p.sessionId # s.sessionId
    /\ bets = before.bets

\* C17: createBet with a betValue that is not in POKER_VALUES fails and
\* writes no Bet row, so every stored betValue is a member of POKER_VALUES.
C17_BetValuePermitted ==
    /\ Did("createBet") /\ last.arg.betValue \notin POKER_VALUES =>
          ~last.ok /\ bets = before.bets
    /\ \A b \in bets : b.betValue \in POKER_VALUES

BetRows(be, storyId, pid) ==
    {b \in be : b.storyId = storyId /\ b.participantId = pid}

\* C18: in every reachable state a (storyId, participantId) pair has at most
\* one Bet row, and after a successful createBet the pair's single row holds
\* the value of that call; in particular after a second createBet for the
\* pair the row holds the later value.
C18_LastBetWins ==
    /\ \A b \in bets, c \in bets :
          b.storyId = c.storyId /\ b.participantId = c.participantId => b = c
    /\ Did("createBet") /\ last.ok =>
          /\ BetRows(bets, last.arg.storyId, last.arg.participantId)
               = {[storyId |-> last.arg.storyId,
                   participantId |-> last.arg.participantId,
                   betValue |-> last.arg.betValue]}
          /\ last.ret = [storyId |-> last.arg.storyId,
                         participantId |-> last.arg.participantId,
                         betValue |-> last.arg.betValue]
          /\ \A b \in before.bets :
                b.storyId # last.arg.storyId
                \/ b.participantId # last.arg.participantId => b \in bets

\* The second bet: the pair already had a row with another value, and another
\* pair's row is in the table.
C18_Witness ==
    /\ Did("createBet") /\ last.ok
    /\ \E b \in BetRows(before.bets, last.arg.storyId, last.arg.participantId) :
          b.betValue # last.arg.betValue
    /\ Cardinality(bets) = 2

\* The vote tables that differ from vo at most in the values of the votes
\* cast on story cur.
VotesDifferingInValues(vo, cur) ==
    LET cast == {v \in vo : v.storyId = cur}
    IN  {(vo \ cast) \cup {[v EXCEPT !.voteValue = f[v]] : v \in cast} :
           f \in [cast -> VoteInputs \cap POKER_VALUES]}

\* C19: while votesRevealed is FALSE the result of getSessionDetails does not
\* depend on the values of the votes cast on the active story: in every state
\* that differs from the one read only in those values, the call returns the
\* same result.
C19_ValuesHiddenUntilReveal ==
    (/\ Did("getSessionDetails") /\ last.ok
     /\ ~last.ret.session.votesRevealed
     /\ last.ret.currentStory # NULL)
    => \A vo \in VotesDifferingInValues(before.votes, last.ret.currentStory) :
          SessionView(last.ret.session, last.ret.currentStory,
                      Rows(StoryVotes(vo, before.participants,
                                      last.ret.currentStory)),
                      last.ret.bets) = last.ret

\* C20: a successful getSessionDetails returns votes = null and bets = null
\* when the session has no active story; otherwise the votes and the bets it
\* returns are exactly the Vote and Bet rows whose storyId is the session's
\* active story, so no row of an inactive story is returned.
C20_OnlyActiveStorySurfaced ==
    Did("getSessionDetails") /\ last.ok =>
       LET act == {s.id : s \in ActiveStories(before.stories, last.arg.sessionId)}
       IN  IF act = {}
           THEN /\ last.ret.currentStory = NULL
                /\ last.ret.votes = Null
                /\ last.ret.bets = Null
           ELSE /\ last.ret.currentStory \in act
                /\ ~last.ret.votes.null
                /\ ~last.ret.bets.null
                /\ {[storyId |-> v.storyId, participantId |-> v.participantId,
                     voteValue |-> v.voteValue] : v \in last.ret.votes.rows}
                     = {v \in before.votes : v.storyId \in act}
                /\ {[storyId |-> b.storyId, participantId |-> b.participantId,
                     betValue |-> b.betValue] : b \in last.ret.bets.rows}
                     = {b \in before.bets : b.storyId \in act}

\* A read of a session whose earlier story kept its vote after a new story was
\* added and voted on: one row is returned, one is retained and hidden.
C20_Witness ==
    /\ Did("getSessionDetails") /\ last.ok
    /\ last.ret.currentStory # NULL
    /\ \E v \in before.votes : v.storyId = last.ret.currentStory
    /\ \E v \in before.votes :
          /\ v.storyId # last.ret.currentStory
          /\ IsStoryOf(before.stories, v.storyId, last.arg.sessionId)
    /\ Cardinality(last.ret.votes.rows) = 1

\* The keys of the rows of each table.
SessionKeys(se)     == {s.id : s \in se}
ParticipantKeys(pa) == {p.id : p \in pa}
StoryKeys(st)       == {s.id : s \in st}
VoteKeys(vo)        == {<<v.storyId, v.participantId>> : v \in vo}
BetKeys(be)         == {<<b.storyId, b.participantId>> : b \in be}

\* The step is a statement of client c's addStory or clearVotesAndNextStory.
C21_AddOrClearStep(c) ==
    LET pcs == {"addStory:deactivate", "addStory:insert", "addStory:updateSession",
                "clearVotes:deactivateAll", "clearVotes:activate",
                "clearVotes:deactivateActive"}
    IN  /\ calls'[c] # calls[c]
        /\ \/ calls[c].pc \in pcs
           \/ calls'[c].pc \in pcs
           \/ calls'[c].res.op \in {"addStory", "clearVotesAndNextStory"}

\* C21: no store statement of any operation removes a row: at every step the
\* rows of sessions, participants, stories, votes and bets (by key) only
\* grow; and every statement of addStory and of clearVotesAndNextStory leaves
\* the Vote and Bet rows (story, participant, value) exactly as they were.
C21_NothingRemoved ==
    [][ /\ SessionKeys(sessions) \subseteq SessionKeys(sessions')
        /\ ParticipantKeys(participants) \subseteq ParticipantKeys(participants')
        /\ StoryKeys(stories) \subseteq StoryKeys(stories')
        /\ VoteKeys(votes) \subseteq VoteKeys(votes')
        /\ BetKeys(bets) \subseteq BetKeys(bets')
        /\ \A c \in Clients :
              C21_AddOrClearStep(c) => votes' = votes /\ bets' = bets
      ]_vars

\* A clearVotesAndNextStory has completed on a session whose story holds a
\* vote: the story is inactive, its vote is still stored.
C21_Witness ==
    /\ \E c \in Clients :
          calls[c].pc = "done" /\ calls[c].res.op = "clearVotesAndNextStory"
    /\ \E v \in votes : \E s \in stories : s.id = v.storyId /\ ~s.isActive

\* C22: revealVotes changes nothing but the votesRevealed flag of the named
\* session: the Vote, Bet, Story (isActive included) and Participant rows, the
\* rows of every other session and the named session's currentStoryId are as
\* they were before the call.
C22_RevealChangesOnlyTheFlag ==
    Did("revealVotes") =>
       /\ votes = before.votes
       /\ bets = before.bets
       /\ stories = before.stories
       /\ participants = before.participants
       /\ SessionKeys(sessions) = SessionKeys(before.sessions)
       /\ \A s \in sessions : \A b \in before.sessions :
             s.id = b.id =>
                /\ s.currentStoryId = b.currentStoryId
                /\ s.id # last.arg.sessionId => s = b

\* A successful reveal on a session with a vote on its active
\* story, while another session exists with its flag down.
C22_Witness ==
    /\ Did("revealVotes") /\ last.ok
    /\ \E s \in before.sessions : s.id = last.arg.sessionId /\ ~s.votesRevealed
    /\ \E s \in sessions : s.id # last.arg.sessionId /\ ~s.votesRevealed
    /\ votes # {}

\* C23: a joinSession under the name of an existing participant of the
\* session returns that participant's id with the isHost status of its row
\* (TRUE for the host's name) and leaves the participants table as it was; a
\* joinSession of an existing session under a new name adds exactly one
\* participant row, with isHost = FALSE, and returns it.
C23_RejoinKeepsHost ==
    Did("joinSession") /\ FindSession(before.sessions, last.arg.sessionId) # {} =>
       LET old == UserInSession(before.participants,
                                last.arg.sessionId, last.arg.userName)
       IN  /\ last.ok
           /\ \A p \in old :
                 /\ last.ret.participantId = p.id
                 /\ last.ret.isHost = p.isHost
                 /\ participants = before.participants
           /\ old = {} =>
                 /\ last.ret.isHost = FALSE
                 /\ last.ret.participantId \notin ParticipantKeys(before.participants)
                 /\ participants = before.participants \cup
                       {[id |-> last.ret.participantId,
                         sessionId |-> last.arg.sessionId,
                         userId |-> last.arg.userName, isHost |-> FALSE]}

\* The host joins its own session again and is returned as host.
C23_Witness ==
    /\ Did("joinSession") /\ last.ok /\ last.ret.isHost
    /\ \E p \in before.participants :
          /\ p.id = last.ret.participantId /\ p.isHost
          /\ p.userId = last.arg.userName /\ p.sessionId = last.arg.sessionId
    /\ participants = before.participants

\* C24: joinSession, addStory and getSessionDetails called with a session id
\* that no session has each fail with "Session not found" and leave every
\* table as it was: no participant or story is inserted, no story is
\* deactivated.
C24_UnknownSessionNotFound ==
    (/\ last.op \in {"joinSession", "addStory", "getSessionDetails"}
     /\ last.arg.sessionId \notin SessionKeys(before.sessions))
    => /\ ~last.ok
       /\ last.err = ErrSessionNotFound
       /\ Tables = before

\* An addStory for an unknown session id while another session has an active
\* story.
C24_Witness ==
    /\ Did("addStory") /\ ~last.ok
    /\ last.arg.sessionId \notin SessionKeys(before.sessions)
    /\ \E s \in before.stories : s.isActive
    /\ stories = before.stories

\* C25: a successful createSession adds exactly one session row, with
\* currentStoryId = null and votesRevealed = FALSE, and exactly one
\* participant row, of that session, named as the caller, with isHost = TRUE;
\* the session has no story; the returned sessionId and hostId are the keys
\* of the two new rows; nothing else changes.
C25_CreateSessionRows ==
    Did("createSession") /\ last.ok =>
       /\ last.ret.sessionId \notin SessionKeys(before.sessions)
       /\ sessions = before.sessions \cup
             {[id |-> last.ret.sessionId, currentStoryId |-> NULL,
               votesRevealed |-> FALSE]}
       /\ last.ret.hostId \notin ParticipantKeys(before.participants)
       /\ participants = before.participants \cup
             {[id |-> last.ret.hostId, sessionId |-> last.ret.sessionId,
               userId |-> last.arg.hostName, isHost |-> TRUE]}
       /\ last.ret.hostName = last.arg.hostName
       /\ StoriesOf(stories, last.ret.sessionId) = {}
       /\ stories = before.stories
       /\ votes = before.votes
       /\ bets = before.bets

\* A second session is created while the first has a story.
C25_Witness ==
    /\ Did("createSession") /\ last.ok
    /\ before.sessions # {}
    /\ before.stories # {}
    /\ Cardinality(sessions) = 2

\* Client d's addStory is applied in part: its deactivation has left the
\* story the session points at inactive and its story is not inserted yet,
\* or its story is inserted and active while the session row still has the
\* previous round's currentStoryId.
C26_PartlyApplied(d) ==
    \/ /\ At(d, "addStory:insert")
       /\ ActiveStories(stories, calls[d].arg.sessionId) = {}
       /\ \E s \in FindSession(sessions, calls[d].arg.sessionId) :
             IsStoryOf(stories, s.currentStoryId, s.id)
    \/ /\ At(d, "addStory:updateSession")
       /\ \E t \in ActiveStories(stories, calls[d].arg.sessionId) :
             t.id = calls[d].loc.newStory
       /\ \E s \in FindSession(sessions, calls[d].arg.sessionId) :
             s.currentStoryId # calls[d].loc.newStory

\* The step is a statement of client c's getSessionDetails, castVote or
\* revealVotes.
C26_ReadStep(c) ==
    LET ops == {"getSessionDetails", "castVote", "revealVotes"}
        pcs == {"getSessionDetails:getCurrentStory", "getSessionDetails:votes",
                "getSessionDetails:bets", "castVote:findParticipant",
                "castVote:upsert", "revealVotes:update"}
    IN  /\ calls'[c] # calls[c]
        /\ \/ calls[c].pc \in pcs
           \/ calls'[c].pc \in pcs
           \/ calls'[c].res.op \in ops

C27_ReadOnlyAndCurrent ==
    Did("getSessionDetails") =>
       /\ Tables = before
       /\ last.ok =>
             LET sid == last.arg.sessionId
                 view == last.ret
                 act == {s.id : s \in ActiveStories(before.stories, sid)}
             IN  /\ [id |-> view.session.id,
                     currentStoryId |-> view.session.currentStoryId,
                     votesRevealed |-> view.session.votesRevealed]
                       \in before.sessions
                 /\ view.session.id = sid
                 /\ view.session.participants
                       = {p \in before.participants : p.sessionId = sid}
                 /\ view.session.stories = StoriesOf(before.stories, sid)
                 /\ view.currentStory \in (IF act = {} THEN {NULL} ELSE act)
                 /\ view.pokerValues = POKER_VALUES
                 /\ view.currentStory # NULL =>
                       /\ {[storyId |-> v.storyId, participantId |-> v.participantId,
                            voteValue |-> v.voteValue] : v \in view.votes.rows}
                            = {v \in before.votes : v.storyId = view.currentStory}
                       /\ {[storyId |-> b.storyId, participantId |-> b.participantId,
                            betValue |-> b.betValue] : b \in view.bets.rows}
                            = {b \in before.bets : b.storyId = view.currentStory}
                       /\ \A v \in view.votes.rows :
                             v.participant
                               = {[id |-> p.id, name |-> p.userId] :
                                    p \in {q \in before.participants :
                                             q.id = v.participantId}}

\* A read right after the mutations of a round: two participants, an active
\* story, a vote on it and the votes revealed, all of it in the result.
C27_Witness ==
    /\ Did("getSessionDetails") /\ last.ok
    /\ last.ret.session.votesRevealed
    /\ Cardinality(last.ret.session.participants) = 2
    /\ last.ret.currentStory # NULL
    /\ last.ret.votes.rows # {}

\* Client c's view is what getSessionDetails returns in the current state.
C28_ViewCurrent(c) ==
    IF PollResults = {} THEN calls[c].res = NoCall
    ELSE calls[c].res \in PollResults

\* C28: with every client polling on its timer, once the store stops changing
\* every client's view comes to equal what the store holds and stays equal;
\* and every poll leaves the client's view equal to what the store holds at
\* that moment, so a write committed before a poll is in the view after it
\* (a view is stale for no longer than the time to the client's next poll).
C28_PollingConverges ==
    /\ [][ \A c \in Clients :
              calls'[c] # calls[c] => C28_ViewCurrent(c)' ]_vars
    /\ <>[][store' = store]_vars => \A c \in Clients : <>[]C28_ViewCurrent(c)

\* A client holds a view of the session that a later write has made stale:
\* the store has a story of the session that the view does not show, while
\* the other client's view is current.
C28_Witness ==
    \E c \in Clients, d \in Clients :
       /\ calls[c].res # NoCall
       /\ calls[c].res \notin PollResults
       /\ calls[c].res.ret.session.stories = {}
       /\ StoriesOf(stories, PollSession) # {}
       /\ calls[d].res \in PollResults

\* Client c has a call in flight.
C29_InFlight(c) == calls[c].pc \notin {"idle", "done"}

\* C29: every call a client makes completes, with a result or an error,
\* whatever the other client's calls do in between: no statement waits on
\* another call, so two upserts on the same (storyId, participantId) both
\* complete.
C29_EveryCallCompletes ==
    \A c \in Clients : C29_InFlight(c) ~> calls[c].pc = "done"

\* Both clients' castVote calls are at their upsert, on the same story for
\* the same participant.
C29_Witness ==
    /\ \A c \in Clients : At(c, "castVote:upsert")
    /\ \A c \in Clients, d \in Clients :
          /\ calls[c].loc.currentStory = calls[d].loc.currentStory
          /\ calls[c].arg.participantId = calls[d].arg.participantId

\* Client c has an addStory or a clearVotesAndNextStory in flight.
C30_Switching(c) ==
    calls[c].pc \in {"addStory:deactivate", "addStory:insert",
                     "addStory:updateSession", "clearVotes:deactivateAll",
                     "clearVotes:activate", "clearVotes:deactivateActive"}

\* C30: with calls whose nextStoryId is a story of the session (or absent), a
\* session whose currentStoryId is non-null and is not the id of an active
\* story of the session exists only while an addStory or a
\* clearVotesAndNextStory is in flight; once the calls in flight have
\* completed, the pointer and the active story agree, however the statements
\* of concurrent calls were interleaved.
C30_MismatchOnlyInFlight ==
    (\E s \in sessions :
        /\ s.currentStoryId # NULL
        /\ ~\E t \in stories : /\ t.id = s.currentStoryId
                               /\ t.sessionId = s.id
                               /\ t.isActive)
    => \E c \in Clients : C30_Switching(c)

\* ---------------------------------------------------------------------------
\* C31  Whenever no call is in flight, a session whose votes are revealed has
\*      an active story, and a revealVotes that returns success leaves the
\*      session with an active story.
\* ---------------------------------------------------------------------------
C31_Quiescent == \A c \in Clients : ~C29_InFlight(c)

C31_RevealedHasActiveStory ==
    C31_Quiescent =>
        \A s \in sessions :
            s.votesRevealed => ActiveStories(stories, s.id) # {}

\* ---------------------------------------------------------------------------
\* C32  Every write of castVote goes to a story that is active in the call's
\*      session at the moment of the write, also when the call races with
\*      addStory or clearVotesAndNextStory.
\* ---------------------------------------------------------------------------
C32_VoteOnActiveStory ==
    [][\A c \in Clients :
          C5_Upserting(c) =>
              \E s \in ActiveStories(stories, calls[c].arg.sessionId) :
                  s.id = calls[c].loc.currentStory]_vars

\* ---------------------------------------------------------------------------
\* C33  (sessionId, userId) is unique among participants, and a joinSession
\*      that found the session and reached its insert returns the participant
\*      of that name, also when another joinSession for the same name has
\*      inserted the row in the meantime.
\* ---------------------------------------------------------------------------
C33_Inserting(c) == At(c, "joinSession:insert") /\ calls'[c].pc = "done"

C33_JoinedByOther(c) ==
    \A p \in UserInSession(participants, calls[c].arg.sessionId,
                           calls[c].arg.userName) : ~p.isHost

C33_ConcurrentJoin ==
    [][/\ \A p, q \in participants' :
             p.sessionId = q.sessionId /\ p.userId = q.userId => p = q
       /\ \A c \in Clients :
             C33_Inserting(c) /\ C33_JoinedByOther(c) =>
                 /\ calls'[c].res.ok
                 /\ \E p \in UserInSession(participants', calls[c].arg.sessionId,
                                           calls[c].arg.userName) :
                        calls'[c].res.ret.participantId = p.id]_vars

\* ---------------------------------------------------------------------------
\* C34  While the session's votes are revealed no castVote succeeds: the Vote
\*      rows of the active story stay as they were at the reveal until the
\*      next addStory or clearVotesAndNextStory.
\* ---------------------------------------------------------------------------
C34_NoVoteWhileRevealed ==
    Did("castVote") /\ last.ok =>
        /\ \A s \in before.sessions :
               s.id = last.arg.sessionId => ~s.votesRevealed
        /\ \A s \in before.sessions :
               s.votesRevealed =>
                   \A v \in votes : v.storyId = s.currentStoryId =>
                                        v \in before.votes

\* ---------------------------------------------------------------------------
\* C35  Every Vote row and every Bet row links a story and a participant of
\*      the same session, whatever the interleaving of the calls of several
\*      sessions.
\* ---------------------------------------------------------------------------
C35_SameSession(storyId, participantId) ==
    \E s \in stories, p \in participants :
        /\ s.id = storyId
        /\ p.id = participantId
        /\ s.sessionId = p.sessionId

C35_RowsWithinOneSession ==
    /\ \A v \in votes : C35_SameSession(v.storyId, v.participantId)
    /\ \A b \in bets  : C35_SameSession(b.storyId, b.participantId)

\* A vote or a bet is stored while two sessions have participants.
C35_Witness ==
    /\ votes \cup bets # {}
    /\ \A i \in DOMAIN SessionIds :
          \E p \in participants : p.sessionId = SessionIds[i]

\* ---------------------------------------------------------------------------
\* C36  Every session that createSession has returned has exactly one
\*      participant with isHost = TRUE in every later state: no call changes a
\*      participant's isHost and joinSession never adds a second host.
\* ---------------------------------------------------------------------------
C36_Hosts(pa, sid) == {p \in pa : p.sessionId = sid /\ p.isHost}

C36_ExactlyOneHost ==
    /\ \A s \in sessions : Cardinality(C36_Hosts(participants, s.id)) = 1
    /\ last # NoCall =>
          /\ before.participants \subseteq participants
          /\ \A s \in before.sessions :
                C36_Hosts(participants, s.id) = C36_Hosts(before.participants, s.id)

\* A second participant has joined a session that createSession returned.
C36_Witness ==
    /\ Did("joinSession") /\ last.ok
    /\ last.ret.participantId \notin ParticipantKeys(before.participants)
    /\ Cardinality(C36_Hosts(participants, last.arg.sessionId)) = 1
    /\ Cardinality({p \in participants : p.sessionId = last.arg.sessionId}) = 2

\* ---------------------------------------------------------------------------
\* C37  Right after addStory, getSessionDetails returns the new story as
\*      currentStory with empty vote and bet lists; right after a
\*      clearVotesAndNextStory that re-activates an earlier story n of the
\*      session, it returns n with exactly the votes and bets cast on n before.
\* ---------------------------------------------------------------------------
\* What getSessionDetails(sid) returns in the current state.
C37_Details(sid) ==
    LET sessionDetails == SessionDetails(sessions, participants, stories, sid) IN
    {IF activeStory = NULL
     THEN SessionView(Row(sessionDetails), NULL, Null, Null)
     ELSE SessionView(Row(sessionDetails), activeStory,
                      Rows(StoryVotes(votes, participants, activeStory)),
                      Rows(StoryBets(bets, participants, activeStory))) :
     activeStory \in IF sessionDetails = {} THEN {}
                     ELSE getCurrentStory(stories, sid)}

C37_Reactivating ==
    /\ Did("clearVotesAndNextStory")
    /\ \E s \in before.stories :
          /\ s.id = last.arg.nextStoryId
          /\ s.sessionId = last.arg.sessionId
          /\ ~s.isActive

C37_CastOn(rows, n) ==
    {<<r.participantId, r.voteValue>> : r \in {x \in rows : x.storyId = n}}

C37_StakedOn(rows, n) ==
    {<<r.participantId, r.betValue>> : r \in {x \in rows : x.storyId = n}}

C37_RoundsFollowTheStory ==
    /\ Did("addStory") /\ last.ok =>
          /\ C37_Details(last.arg.sessionId) # {}
          /\ \A r \in C37_Details(last.arg.sessionId) :
                /\ r.currentStory = last.ret.id
                /\ r.votes = Rows({})
                /\ r.bets = Rows({})
    /\ C37_Reactivating =>
          /\ C37_Details(last.arg.sessionId) # {}
          /\ \A r \in C37_Details(last.arg.sessionId) :
                /\ r.currentStory = last.arg.nextStoryId
                /\ ~r.votes.null /\ ~r.bets.null
                /\ C37_CastOn(r.votes.rows, r.currentStory)
                      = C37_CastOn(before.votes, last.arg.nextStoryId)
                /\ Cardinality(r.votes.rows)
                      = Cardinality(C37_CastOn(before.votes, last.arg.nextStoryId))
                /\ C37_StakedOn(r.bets.rows, r.currentStory)
                      = C37_StakedOn(before.bets, last.arg.nextStoryId)
                /\ Cardinality(r.bets.rows)
                      = Cardinality(C37_StakedOn(before.bets, last.arg.nextStoryId))

\* An earlier story that holds a vote is made current again while a later
\* story was active.
C37_Witness ==
    /\ C37_Reactivating
    /\ C37_CastOn(before.votes, last.arg.nextStoryId) # {}
    /\ \E s \in before.stories : s.isActive /\ s.id > last.arg.nextStoryId

\* ---------------------------------------------------------------------------
\* C38  A call made for one session leaves every other session as it was: its
\*      currentStoryId and votesRevealed, its stories and their isActive, and
\*      its participants, votes and bets. This covers clearVotesAndNextStory
\*      given the id of a story of another session.
\* ---------------------------------------------------------------------------
C38_SessionOps ==
    {"joinSession", "addStory", "castVote", "revealVotes", "clearVotesAndNextStory"}

\* The rows of session sid in a snapshot of the tables.
C38_RowsOf(t, sid) ==
    LET itsStories == {s.id : s \in StoriesOf(t.stories, sid)}
        itsPeople  == {p.id : p \in {q \in t.participants : q.sessionId = sid}}
    IN  [ sessions     |-> {s \in t.sessions : s.id = sid},
          stories      |-> StoriesOf(t.stories, sid),
          participants |-> {p \in t.participants : p.sessionId = sid},
          votes        |-> {v \in t.votes : v.storyId \in itsStories
                                            \/ v.participantId \in itsPeople},
          bets         |-> {b \in t.bets : b.storyId \in itsStories
                                           \/ b.participantId \in itsPeople} ]

C38_OtherSessionsUntouched ==
    last.op \in C38_SessionOps =>
        \A sid \in SessionInputs \ {last.arg.sessionId} :
            C38_RowsOf(Tables, sid) = C38_RowsOf(before, sid)

\* clearVotesAndNextStory for one session is given an inactive story of
\* another session.
C38_Witness ==
    /\ Did("clearVotesAndNextStory")
    /\ \E s \in before.stories :
          /\ s.id = last.arg.nextStoryId
          /\ s.sessionId # last.arg.sessionId
          /\ ~s.isActive
          /\ s \in stories
    /\ FindSession(before.sessions, last.arg.sessionId) # {}

\* ---------------------------------------------------------------------------
\* C39  The identity the home page stores after a successful createSession or
\*      joinSession agrees with the participant row of the store: same id and
\*      same isHost, also when a host joins its own session again by name.
\* ---------------------------------------------------------------------------
C39_Agrees(user, sid) ==
    \E p \in participants :
        /\ p.id = user.id
        /\ p.sessionId = sid
        /\ p.userId = user.name
        /\ p.isHost = user.isHost

C39_StoredIdentityAgrees ==
    /\ Did("createSession") /\ last.ok =>
          C39_Agrees(createSessionMutation_onSuccess(last.ret), last.ret.sessionId)
    /\ Did("joinSession") /\ last.ok =>
          C39_Agrees(joinSessionMutation_onSuccess(last.ret), last.ret.sessionId)

=============================================================================
